---- MODULE Spec2Model ----
(***************************************************************************)
(* Resume_Writer.py: a Streamlit script that reads two uploads, builds a   *)
(* prompt, calls the chat completion service with bounded retries and      *)
(* renders the reply to DOCX and PDF.                                      *)
(*                                                                         *)
(* Text is a sequence of Unicode code points, a byte buffer a sequence of  *)
(* numbers in 0..255.  A Python value that may be None or unassigned is a  *)
(* sequence of length 0 or 1 holding the value.                            *)
(***************************************************************************)
EXTENDS Integers, Sequences, FiniteSets, TLC

\* ------------------------------------------------------------------------
\* String constants of the program
\* ------------------------------------------------------------------------

\* 'Error:'
ErrorTag == <<69, 114, 114, 111, 114, 58>>
\* 'Error: OpenAI API rate limit exceeded. Please try again later.'
MsgRateLimit ==
    <<69, 114, 114, 111, 114, 58, 32, 79, 112, 101, 110, 65, 73, 32, 65, 80,
      73, 32, 114, 97, 116, 101, 32, 108, 105, 109, 105, 116, 32, 101, 120,
      99, 101, 101, 100, 101, 100, 46, 32, 80, 108, 101, 97, 115, 101, 32,
      116, 114, 121, 32, 97, 103, 97, 105, 110, 32, 108, 97, 116, 101, 114, 46>>
\* 'Error: Invalid API key. Please check your OpenAI API credentials.'
MsgAuth ==
    <<69, 114, 114, 111, 114, 58, 32, 73, 110, 118, 97, 108, 105, 100, 32, 65,
      80, 73, 32, 107, 101, 121, 46, 32, 80, 108, 101, 97, 115, 101, 32, 99,
      104, 101, 99, 107, 32, 121, 111, 117, 114, 32, 79, 112, 101, 110, 65,
      73, 32, 65, 80, 73, 32, 99, 114, 101, 100, 101, 110, 116, 105, 97, 108,
      115, 46>>
\* 'Error: Invalid request to OpenAI API: '
MsgInvalidPrefix ==
    <<69, 114, 114, 111, 114, 58, 32, 73, 110, 118, 97, 108, 105, 100, 32,
      114, 101, 113, 117, 101, 115, 116, 32, 116, 111, 32, 79, 112, 101, 110,
      65, 73, 32, 65, 80, 73, 58, 32>>
\* 'Error: Failed to generate resume after '
MsgFailedPrefix ==
    <<69, 114, 114, 111, 114, 58, 32, 70, 97, 105, 108, 101, 100, 32, 116,
      111, 32, 103, 101, 110, 101, 114, 97, 116, 101, 32, 114, 101, 115, 117,
      109, 101, 32, 97, 102, 116, 101, 114, 32>>
\* ' attempts. '
MsgFailedMiddle == <<32, 97, 116, 116, 101, 109, 112, 116, 115, 46, 32>>
\* 'Error: Unexpected error occurred during resume generation.'
MsgUnexpected ==
    <<69, 114, 114, 111, 114, 58, 32, 85, 110, 101, 120, 112, 101, 99, 116,
      101, 100, 32, 101, 114, 114, 111, 114, 32, 111, 99, 99, 117, 114, 114,
      101, 100, 32, 100, 117, 114, 105, 110, 103, 32, 114, 101, 115, 117, 109,
      101, 32, 103, 101, 110, 101, 114, 97, 116, 105, 111, 110, 46>>
\* 'Error: PDF support not available. Please install PyPDF2.'
MsgPdfUnsupported ==
    <<69, 114, 114, 111, 114, 58, 32, 80, 68, 70, 32, 115, 117, 112, 112, 111,
      114, 116, 32, 110, 111, 116, 32, 97, 118, 97, 105, 108, 97, 98, 108,
      101, 46, 32, 80, 108, 101, 97, 115, 101, 32, 105, 110, 115, 116, 97,
      108, 108, 32, 80, 121, 80, 68, 70, 50, 46>>
\* 'Error reading PDF: '
MsgPdfReadPrefix ==
    <<69, 114, 114, 111, 114, 32, 114, 101, 97, 100, 105, 110, 103, 32, 80,
      68, 70, 58, 32>>
\* '.txt'
SuffixTxt == <<46, 116, 120, 116>>
\* '.docx'
SuffixDocx == <<46, 100, 111, 99, 120>>
\* '.pdf'
SuffixPdf == <<46, 112, 100, 102>>
\* 'Curricula Vitae'
TitleText ==
    <<67, 117, 114, 114, 105, 99, 117, 108, 97, 32, 86, 105, 116, 97, 101>>
\* The alternatives of the section-header pattern:
\* 'PROFESSIONAL SUMMARY', 'EXPERIENCE', 'EDUCATION', 'SKILLS',
\* 'CERTIFICATIONS', 'PROJECTS'
SectionWords ==
    { <<80, 82, 79, 70, 69, 83, 83, 73, 79, 78, 65, 76, 32, 83, 85, 77, 77, 65,
        82, 89>>,
      <<69, 88, 80, 69, 82, 73, 69, 78, 67, 69>>,
      <<69, 68, 85, 67, 65, 84, 73, 79, 78>>,
      <<83, 75, 73, 76, 76, 83>>,
      <<67, 69, 82, 84, 73, 70, 73, 67, 65, 84, 73, 79, 78, 83>>,
      <<80, 82, 79, 74, 69, 67, 84, 83>> }
\* 'EXPERIENCE'
EXPERIENCE == <<69, 88, 80, 69, 82, 73, 69, 78, 67, 69>>
\* '-', the bullet U+2022, '*'
BulletChars == {45, 8226, 42}
\* the bullet U+2022 followed by a space
BulletPdfPrefix == <<8226, 32>>
\* the opening lines of SAMPLE_CV: '\nJohn Doe\n'
SAMPLE_CV == <<10, 74, 111, 104, 110, 32, 68, 111, 101, 10>>
\* the opening lines of SAMPLE_JOB_DESCRIPTION:
\* '\nSenior Full Stack Developer Position\n'
SAMPLE_JOB_DESCRIPTION ==
    <<10, 83, 101, 110, 105, 111, 114, 32, 70, 117, 108, 108, 32, 83, 116, 97,
      99, 107, 32, 68, 101, 118, 101, 108, 111, 112, 101, 114, 32, 80, 111,
      115, 105, 116, 105, 111, 110, 10>>
\* 'Professional'
ToneProfessional ==
    <<80, 114, 111, 102, 101, 115, 115, 105, 111, 110, 97, 108>>
\* 'Concise'
ToneConcise == <<67, 111, 110, 99, 105, 115, 101>>
\* 'Achievement-Oriented'
ToneAchievement ==
    <<65, 99, 104, 105, 101, 118, 101, 109, 101, 110, 116, 45, 79, 114, 105,
      101, 110, 116, 101, 100>>
\* 'Leadership-Focused'
ToneLeadership ==
    <<76, 101, 97, 100, 101, 114, 115, 104, 105, 112, 45, 70, 111, 99, 117,
      115, 101, 100>>
\* the options of the tone selectbox
Tones == {ToneProfessional, ToneConcise, ToneAchievement, ToneLeadership}
\* the options the modelled user selects
ToneChoices == {ToneProfessional, ToneLeadership}

\* ------------------------------------------------------------------------
\* Python string and bytes primitives, computed as Python computes them
\* ------------------------------------------------------------------------

\* s.startswith(p)
StartsWith(s, p) == Len(s) >= Len(p) /\ SubSeq(s, 1, Len(p)) = p

\* s.endswith(p)
EndsWith(s, p) ==
    Len(s) >= Len(p) /\ SubSeq(s, Len(s) - Len(p) + 1, Len(s)) = p

\* the code points for which str.isspace() holds (also the regex class \s)
Whitespace ==
    (9..13) \cup (28..32) \cup {133, 160, 5760} \cup (8192..8202)
        \cup {8232, 8233, 8239, 8287, 12288}

RECURSIVE LStrip(_)
LStrip(s) ==
    IF s = <<>> \/ Head(s) \notin Whitespace THEN s ELSE LStrip(Tail(s))

RECURSIVE RStrip(_)
RStrip(s) ==
    IF s = <<>> \/ s[Len(s)] \notin Whitespace
    THEN s
    ELSE RStrip(SubSeq(s, 1, Len(s) - 1))

\* s.strip()
Strip(s) == RStrip(LStrip(s))

\* c.upper() / c.lower() for one code point; only the ASCII letters have a
\* case among the code points the texts here are made of
UpperChar(c) == IF c \in 97..122 THEN c - 32 ELSE c
LowerChar(c) == IF c \in 65..90 THEN c + 32 ELSE c
Upper(s) == [i \in 1..Len(s) |-> UpperChar(s[i])]
Lower(s) == [i \in 1..Len(s) |-> LowerChar(s[i])]

\* s.split("\n")
RECURSIVE SplitLines(_)
SplitLines(s) ==
    IF \A i \in 1..Len(s) : s[i] # 10
    THEN <<s>>
    ELSE LET i == CHOOSE k \in 1..Len(s) :
                      s[k] = 10 /\ \A j \in 1..(k - 1) : s[j] # 10
         IN  <<SubSeq(s, 1, i - 1)>> \o SplitLines(SubSeq(s, i + 1, Len(s)))

\* str(n) for a natural number n
RECURSIVE IntToStr(_)
IntToStr(n) ==
    IF n < 10 THEN <<48 + n>> ELSE IntToStr(n \div 10) \o <<48 + (n % 10)>>

\* bytes.decode("utf-8") with the default strict error handling:
\* ok = FALSE stands for UnicodeDecodeError
RECURSIVE Utf8Decode(_)
Utf8Decode(b) ==
    IF b = <<>>
    THEN [ok |-> TRUE, text |-> <<>>]
    ELSE
      LET b1 == b[1]
          n  == IF b1 < 128 THEN 1
                ELSE IF b1 \in 194..223 THEN 2
                ELSE IF b1 \in 224..239 THEN 3
                ELSE IF b1 \in 240..244 THEN 4
                ELSE 0
          lo2 == IF b1 = 224 THEN 160 ELSE IF b1 = 240 THEN 144 ELSE 128
          hi2 == IF b1 = 237 THEN 159 ELSE IF b1 = 244 THEN 143 ELSE 191
          bad == [ok |-> FALSE, text |-> <<>>]
      IN
      IF n = 0 \/ Len(b) < n
      THEN bad
      ELSE
        LET valid == /\ (n >= 2 => b[2] \in lo2..hi2)
                     /\ (n >= 3 => b[3] \in 128..191)
                     /\ (n >= 4 => b[4] \in 128..191)
            cp == IF n = 1 THEN b1
                  ELSE IF n = 2 THEN (b1 - 192) * 64 + (b[2] - 128)
                  ELSE IF n = 3
                  THEN (b1 - 224) * 4096 + (b[2] - 128) * 64 + (b[3] - 128)
                  ELSE (b1 - 240) * 262144 + (b[2] - 128) * 4096
                           + (b[3] - 128) * 64 + (b[4] - 128)
            rest == Utf8Decode(SubSeq(b, n + 1, Len(b)))
        IN  IF valid /\ rest.ok
            THEN [ok |-> TRUE, text |-> <<cp>> \o rest.text]
            ELSE bad

\* ------------------------------------------------------------------------
\* Prompt builder
\* ------------------------------------------------------------------------

\* build_prompt: the fixed template with its three interpolated fields; the
\* prompt is kept as those fields
build_prompt(resume_text, job_text, tone) ==
    [tone |-> Lower(tone), resume_text |-> resume_text, job_text |-> job_text]

\* ------------------------------------------------------------------------
\* Document renderers
\* ------------------------------------------------------------------------

\* the match without re.IGNORECASE
MatchSectionCaseSensitive(line) == line \in SectionWords

\* re.match(r'^(PROFESSIONAL SUMMARY|...|PROJECTS)$', line, re.IGNORECASE):
\* the whole line is one of the words in any letter case; $ also matches
\* before one final newline
MatchSection(line) ==
    LET core == IF line # <<>> /\ line[Len(line)] = 10
                THEN SubSeq(line, 1, Len(line) - 1)
                ELSE line
    IN  Upper(line) \in SectionWords \/ Upper(core) \in SectionWords

\* line.startswith('-') or line.startswith(bullet) or line.startswith('*')
StartsWithBullet(line) == line # <<>> /\ Head(line) \in BulletChars

\* re.sub(r'^[-bullet*]\s*', '', line)
StripBullet(line) ==
    IF StartsWithBullet(line) THEN LStrip(Tail(line)) ELSE line

\* current_section = None
NoSection == <<>>

\* One pass of the loop of save_resume_docx over the remaining lines: for
\* each line its class, the text given to the document and the cursor after
\* the line.
RECURSIVE DocxLoop(_, _)
DocxLoop(lines, current_section) ==
    IF lines = <<>>
    THEN <<>>
    ELSE
      LET line == Strip(Head(lines))
          step ==
            IF line = <<>>
            THEN [cls |-> "blank", text |-> <<>>,
                  section |-> current_section]
            ELSE IF MatchSection(line)
            THEN [cls |-> "header", text |-> Upper(line),
                  section |-> Upper(line)]
            ELSE IF current_section = EXPERIENCE /\ StartsWithBullet(line)
            THEN [cls |-> "bullet", text |-> StripBullet(line),
                  section |-> current_section]
            ELSE [cls |-> "plain", text |-> line,
                  section |-> current_section]
      IN  <<step>> \o DocxLoop(Tail(lines), step.section)

\* the pass of save_resume_pdf with list items in every section
RECURSIVE PdfLoopAnySection(_, _)
PdfLoopAnySection(lines, current_section) ==
    IF lines = <<>>
    THEN <<>>
    ELSE
      LET line == Strip(Head(lines))
          step ==
            IF line = <<>>
            THEN [cls |-> "blank", text |-> <<>>,
                  section |-> current_section]
            ELSE IF MatchSection(line)
            THEN [cls |-> "header", text |-> Upper(line),
                  section |-> Upper(line)]
            ELSE IF StartsWithBullet(line)
            THEN [cls |-> "bullet",
                  text |-> BulletPdfPrefix \o StripBullet(line),
                  section |-> current_section]
            ELSE [cls |-> "plain", text |-> line,
                  section |-> current_section]
      IN  <<step>> \o PdfLoopAnySection(Tail(lines), step.section)

\* The same pass of the loop of save_resume_pdf.
RECURSIVE PdfLoop(_, _)
PdfLoop(lines, current_section) ==
    IF lines = <<>>
    THEN <<>>
    ELSE
      LET line == Strip(Head(lines))
          step ==
            IF line = <<>>
            THEN [cls |-> "blank", text |-> <<>>,
                  section |-> current_section]
            ELSE IF MatchSection(line)
            THEN [cls |-> "header", text |-> Upper(line),
                  section |-> Upper(line)]
            ELSE IF current_section = EXPERIENCE /\ StartsWithBullet(line)
            THEN [cls |-> "bullet",
                  text |-> BulletPdfPrefix \o StripBullet(line),
                  section |-> current_section]
            ELSE [cls |-> "plain", text |-> line,
                  section |-> current_section]
      IN  <<step>> \o PdfLoop(Tail(lines), step.section)

\* the paragraphs a pass adds to the document: every line but the blank ones
RECURSIVE Paragraphs(_)
Paragraphs(steps) ==
    IF steps = <<>>
    THEN <<>>
    ELSE (IF Head(steps).cls = "blank"
          THEN <<>>
          ELSE <<[style |-> Head(steps).cls, text |-> Head(steps).text]>>)
         \o Paragraphs(Tail(steps))

\* extract_name
extract_name(resume_text) == TitleText

\* save_resume_docx: the title, a spacing paragraph, then the body
save_resume_docx(resume_text) ==
    <<[style |-> "title", text |-> extract_name(resume_text)],
      [style |-> "spacer", text |-> <<>>]>>
        \o Paragraphs(DocxLoop(SplitLines(resume_text), NoSection))

\* save_resume_pdf: the title, then the body
save_resume_pdf(resume_text) ==
    <<[style |-> "title", text |-> extract_name(resume_text)]>>
        \o Paragraphs(PdfLoop(SplitLines(resume_text), NoSection))

\* ------------------------------------------------------------------------
\* Bounds and inputs
\* ------------------------------------------------------------------------

\* the largest retry bound call_openai_chat is entered with on its own
MaxRetries == 4
\* the longest generated byte buffer (before an optional PDF marker)
MaxBufLen == 3
\* max_retries: int = 3
DEFAULT_MAX_RETRIES == 3

\* '%PDF', the marker a PDF file starts with
PdfMagic == <<37, 80, 68, 70>>
\* 'cv.txt', 'cv.docx', 'cv.pdf', 'cv.PDF': the uploader accepts the three
\* extensions in any letter case
NameTxt == <<99, 118, 46, 116, 120, 116>>
NameDocx == <<99, 118, 46, 100, 111, 99, 120>>
NamePdf == <<99, 118, 46, 112, 100, 102>>
NameUpperPdf == <<99, 118, 46, 80, 68, 70>>
FileNames == {NameTxt, NameDocx, NamePdf, NameUpperPdf}

\* 'Hi'
BufText == <<72, 105>>
\* one byte 0xE9: an e-acute in Latin-1, not valid UTF-8
BufLatin1 == <<233>>
\* '%PDF-'
BufPdfHeader == <<37, 80, 68, 70, 45>>
\* 'PK\x03\x04'
BufZipHeader == <<80, 75, 3, 4>>

\* the uploads a user of the application chooses among
AppUploads ==
    { [name |-> NameTxt, data |-> BufText],
      [name |-> NameTxt, data |-> <<>>],
      [name |-> NameTxt, data |-> BufLatin1],
      [name |-> NameTxt, data |-> BufPdfHeader],
      [name |-> NameDocx, data |-> BufZipHeader],
      [name |-> NamePdf, data |-> BufPdfHeader],
      [name |-> NameUpperPdf, data |-> BufPdfHeader] }

\* bytes the generated buffers are made of: 'A', the two bytes of e-acute in
\* UTF-8, the three bytes of the euro sign in UTF-8, and 0xFF
ByteAlphabet == {65, 195, 169, 226, 130, 172, 255}
ShortBuffers == UNION {[1..n -> ByteAlphabet] : n \in 0..MaxBufLen}
Buffers == ShortBuffers \cup {PdfMagic \o b : b \in ShortBuffers}
AllUploads == [name : FileNames, data : Buffers]

\* 'Jane Doe'
DocTextSample == <<74, 97, 110, 101, 32, 68, 111, 101>>
\* What the decoder library (python-docx, PyPDF2) does with an upload: it
\* raises, or yields the texts of the paragraphs / pages
LibOutcomes ==
    {[raises |-> TRUE, parts |-> <<>>]}
        \cup {[raises |-> FALSE, parts |-> p] :
                 p \in {<<>>, <<DocTextSample>>, <<<<>>>>}}
\* str(e) of an exception: 'boom'
ExcText == <<98, 111, 111, 109>>

\* reply texts of the completion service
\* 'Jane Doe\nSKILLS:\n- Python\n- SQL'
ReplySpecExample ==
    <<74, 97, 110, 101, 32, 68, 111, 101, 10, 83, 75, 73, 76, 76, 83, 58, 10,
      45, 32, 80, 121, 116, 104, 111, 110, 10, 45, 32, 83, 81, 76>>
\* 'Experience\n- Built APIs\n\nSKILLS\n* SQL'
ReplyExperience ==
    <<69, 120, 112, 101, 114, 105, 101, 110, 99, 101, 10, 45, 32, 66, 117,
      105, 108, 116, 32, 65, 80, 73, 115, 10, 10, 83, 75, 73, 76, 76, 83, 10,
      42, 32, 83, 81, 76>>
\* 'Error: none'
ReplyErrorLike == <<69, 114, 114, 111, 114, 58, 32, 110, 111, 110, 101>>
\* '  ok \n'
ReplyPadded == <<32, 32, 111, 107, 32, 10>>
Replies ==
    {ReplySpecExample, ReplyExperience, ReplyErrorLike, ReplyPadded, <<>>}

\* the most lines of a generated reply text
MaxLines == 3
\* lines of a reply text: section words in upper, mixed and lower case, a
\* section word with a colon, the three bullet markers with and without
\* spaces after them, an indented bullet, blank lines and plain text
\* 'Experience'
LineExperienceMixed == <<69, 120, 112, 101, 114, 105, 101, 110, 99, 101>>
\* 'skills'
LineSkills == <<115, 107, 105, 108, 108, 115>>
\* 'Skills:'
LineColon == <<83, 107, 105, 108, 108, 115, 58>>
\* '- a'
LineDash == <<45, 32, 97>>
\* bullet, two spaces, 'b'
LineDot == <<8226, 32, 32, 98>>
\* '*c'
LineStar == <<42, 99>>
\* '  - d '
LineIndented == <<32, 32, 45, 32, 100, 32>>
\* '  '
LineSpaces == <<32, 32>>
SampleLines ==
    {EXPERIENCE, LineExperienceMixed, LineSkills, LineColon, LineDash,
     LineDot, LineStar, LineIndented, <<>>, LineSpaces, DocTextSample}
\* What the completion service answers to one request: a reply whose
\* message content is a text or None, or one of the failures the client
\* distinguishes
Responses ==
    {[sig |-> "ok", content |-> <<t>>] : t \in Replies}
        \cup {[sig |-> s, content |-> <<>>] :
                 s \in {"ok", "RateLimitError", "AuthenticationError",
                        "InvalidRequestError", "Exception"}}

\* ------------------------------------------------------------------------
\* State
\* ------------------------------------------------------------------------

VARIABLES
    OPENAI_API_KEY,  \* TRUE iff the environment variable is set and non-empty
    PDF_SUPPORT,     \* TRUE iff PyPDF2 was imported
    resume_file,     \* the uploader's file, or <<>>
    job_file,
    pc,              \* where the script run is
    clicked,         \* the button that started the run: none, sample, generate
    resume_text,     \* <<text>> once read in this run
    job_text,
    prompt,          \* <<prompt>> once built in this run
    attempt,         \* call_openai_chat: loop variable
    max_retries,     \* call_openai_chat: parameter
    caller,          \* who called call_openai_chat: sample, main, direct
    log,             \* call_openai_chat: requests sent and sleeps, in order
    output,          \* <<text>> once call_openai_chat returned
    ui,              \* what the run has shown through st.*
    docx_file,       \* <<paragraphs>> once save_resume_docx ran in this run
    pdf_file,
    raised,          \* TRUE iff the run ended in an uncaught exception
    routes           \* the branch each read_file call of the run took

vars ==
    <<OPENAI_API_KEY, PDF_SUPPORT, resume_file, job_file, pc, clicked,
      resume_text, job_text, prompt, attempt, max_retries, caller, log,
      output, ui, docx_file, pdf_file, raised, routes>>

Msg(kind, msg, arg) == [kind |-> kind, msg |-> msg, arg |-> arg]

\* ------------------------------------------------------------------------
\* Extractor
\* ------------------------------------------------------------------------

\* "\n".join(parts)
RECURSIVE Join(_)
Join(parts) ==
    IF parts = <<>> THEN <<>>
    ELSE IF Len(parts) = 1 THEN parts[1]
    ELSE parts[1] \o <<10>> \o Join(Tail(parts))

\* text += page.extract_text() + "\n" over the pages
RECURSIVE PageText(_)
PageText(parts) ==
    IF parts = <<>> THEN <<>>
    ELSE parts[1] \o <<10>> \o PageText(Tail(parts))

\* [para.text for para in doc.paragraphs if para.text.strip()]
RECURSIVE NonBlank(_)
NonBlank(parts) ==
    IF parts = <<>> THEN <<>>
    ELSE (IF Strip(parts[1]) # <<>> THEN <<parts[1]>> ELSE <<>>)
         \o NonBlank(Tail(parts))

\* extract_text_from_pdf, given what PyPDF2 does with the file
extract_text_from_pdf(lib) ==
    IF ~PDF_SUPPORT THEN MsgPdfUnsupported
    ELSE IF lib.raises THEN MsgPdfReadPrefix \o ExcText
    ELSE PageText(lib.parts)

\* main.read_file, given what the decoder library does with the file:
\* raised stands for the UnicodeDecodeError leaving read_file, route names
\* the branch taken
read_file(file, lib) ==
    LET ret(t, where) ==
            [raised |-> FALSE, text |-> t, errors |-> <<>>, route |-> where]
    IN
    IF file = <<>> THEN ret(<<>>, "none")
    ELSE IF EndsWith(file[1].name, SuffixTxt)
    THEN LET d == Utf8Decode(file[1].data)
         IN  IF d.ok THEN ret(d.text, "txt")
             ELSE [raised |-> TRUE, text |-> <<>>, errors |-> <<>>,
                   route |-> "txt"]
    ELSE IF EndsWith(file[1].name, SuffixDocx)
    THEN IF lib.raises
         THEN [raised |-> FALSE, text |-> <<>>,
               errors |-> <<Msg("error", "Error reading DOCX file: ",
                                ExcText)>>,
               route |-> "docx"]
         ELSE ret(Join(NonBlank(lib.parts)), "docx")
    ELSE IF EndsWith(file[1].name, SuffixPdf)
    THEN IF ~PDF_SUPPORT THEN ret(MsgPdfUnsupported, "pdf")
         ELSE ret(extract_text_from_pdf(lib), "pdf")
    ELSE ret(<<>>, "other")

\* ------------------------------------------------------------------------
\* Completion client
\* ------------------------------------------------------------------------

\* the except clause that handles a response: a reply whose content is None
\* makes .strip() raise AttributeError inside the try, caught as Exception
Branch(r) ==
    IF r.sig = "ok"
    THEN (IF r.content = <<>> THEN "Exception" ELSE "return")
    ELSE r.sig

\* a client that returns at once on the authentication failure only
FatalAuthOnly(branch) == branch = "AuthenticationError"

\* except AuthenticationError / except InvalidRequestError: return at once
Fatal(branch) == branch \in {"AuthenticationError", "InvalidRequestError"}

\* a client that gives up one attempt early
RetryAllowedOneFewer(a, m) == a < m - 2

\* a client that also retries (and sleeps) after its last attempt
RetryAllowedOffByOne(a, m) == a < m

\* if attempt < max_retries - 1
RetryAllowed(a, m) == a < m - 1

\* wait_time = 2 ** attempt
wait_time(a) == 2 ^ a

\* the sleep of the except clause that retries
SleepSecs(branch, a) == IF branch = "RateLimitError" THEN wait_time(a) ELSE 1

\* what the except clause returns when it returns
ErrorReturn(branch, m) ==
    IF branch = "RateLimitError" THEN MsgRateLimit
    ELSE IF branch = "AuthenticationError" THEN MsgAuth
    ELSE IF branch = "InvalidRequestError" THEN MsgInvalidPrefix \o ExcText
    ELSE MsgFailedPrefix \o IntToStr(m) \o MsgFailedMiddle \o ExcText

\* the entries of the log: a request with what the service answered, and a
\* time.sleep
Create(r) == [ev |-> "create", sig |-> r.sig, content |-> r.content, secs |-> 0]
Sleep(n) == [ev |-> "sleep", sig |-> "-", content |-> <<>>, secs |-> n]

\* where call_openai_chat returns to
ReturnTo(c) ==
    IF c = "sample" THEN "sample_result"
    ELSE IF c = "main" THEN "main_result"
    ELSE "returned"

\* call_openai_chat: one iteration of the retry loop (a request, its
\* handling and the sleep before the next), or the fall out of the loop
call_openai_chat ==
    /\ pc = "call_openai_chat"
    /\ IF attempt >= max_retries
       THEN /\ output' = <<MsgUnexpected>>
            /\ pc' = ReturnTo(caller)
            /\ UNCHANGED <<attempt, log, ui>>
       ELSE \E r \in Responses :
              LET b == Branch(r)
              IN
              IF b = "return"
              THEN /\ output' = <<Strip(r.content[1])>>
                   /\ log' = Append(log, Create(r))
                   /\ pc' = ReturnTo(caller)
                   /\ UNCHANGED <<attempt, ui>>
              ELSE IF ~Fatal(b) /\ RetryAllowed(attempt, max_retries)
              THEN /\ log' = log \o <<Create(r), Sleep(SleepSecs(b, attempt))>>
                   /\ ui' = IF b = "RateLimitError"
                            THEN Append(ui, Msg("warning",
                                     "Rate limit exceeded. Retrying in seconds",
                                     IntToStr(wait_time(attempt))))
                            ELSE ui
                   /\ attempt' = attempt + 1
                   /\ UNCHANGED <<output, pc>>
              ELSE /\ output' = <<ErrorReturn(b, max_retries)>>
                   /\ log' = Append(log, Create(r))
                   /\ pc' = ReturnTo(caller)
                   /\ UNCHANGED <<attempt, ui>>
    /\ UNCHANGED <<OPENAI_API_KEY, PDF_SUPPORT, resume_file, job_file, clicked,
                   resume_text, job_text, prompt, max_retries, caller,
                   docx_file, pdf_file, raised, routes>>

\* ------------------------------------------------------------------------
\* The script run
\* ------------------------------------------------------------------------

KeyErrorMain ==
    Msg("error",
        "OpenAI API key not configured. Please set the OPENAI_API_KEY environment variable.",
        <<>>)
KeyErrorSample ==
    Msg("error",
        "OpenAI API key not configured. Sample generation requires a valid API key.",
        <<>>)

\* the st.error of the empty-text check
CouldNotExtract ==
    Msg("error",
        "Could not extract text from uploaded files. Please try again with different files.",
        <<>>)

\* main from the API key handling on, in a run whose generate button is not
\* pressed: st.error and st.stop() without the key, else the widgets only
MainKeyCheck(shown) ==
    IF ~OPENAI_API_KEY THEN Append(shown, KeyErrorMain) ELSE shown

\* a check that looks at the resume text only
TextsMissingResumeOnly(rt, jt) == rt = <<>>

\* if not resume_text or not job_text
TextsMissing(rt, jt) == rt = <<>> \/ jt = <<>>

\* if resume_text.startswith("Error:") or job_text.startswith("Error:")
ExtractionError(rt, jt) == StartsWith(rt, ErrorTag) \/ StartsWith(jt, ErrorTag)

\* if output.startswith("Error:")
OutputIsError(out) == StartsWith(out, ErrorTag)

\* A user action makes Streamlit run the script again from the top: what
\* the previous run computed and showed is gone
Rerun(button) ==
    /\ pc = "idle"
    /\ pc' = "run"
    /\ clicked' = button
    /\ ui' = <<>>
    /\ resume_text' = <<>> /\ job_text' = <<>> /\ prompt' = <<>>
    /\ attempt' = 0 /\ log' = <<>> /\ output' = <<>>
    /\ docx_file' = <<>> /\ pdf_file' = <<>> /\ raised' = FALSE
    /\ routes' = <<>>
    /\ UNCHANGED <<OPENAI_API_KEY, PDF_SUPPORT, max_retries, caller>>

\* the user puts a file into (or takes it out of) the resume uploader
UploadResume ==
    /\ \E f \in {<<>>} \cup {<<u>> : u \in AppUploads} :
         /\ f # resume_file
         /\ resume_file' = f
    /\ UNCHANGED job_file
    /\ Rerun("none")

\* the same for the job description uploader
UploadJob ==
    /\ \E f \in {<<>>} \cup {<<u>> : u \in AppUploads} :
         /\ f # job_file
         /\ job_file' = f
    /\ UNCHANGED resume_file
    /\ Rerun("none")

\* the user presses "Generate Sample Resume"
ClickSample == Rerun("sample") /\ UNCHANGED <<resume_file, job_file>>

\* the user presses "Generate Tailored Resume"
ClickGenerate == Rerun("generate") /\ UNCHANGED <<resume_file, job_file>>

\* main in a run with no button pressed: the sample preview is drawn, then
\* the key is checked
main_no_button ==
    /\ pc = "run" /\ clicked = "none"
    /\ ui' = MainKeyCheck(ui)
    /\ pc' = "idle"
    /\ UNCHANGED <<OPENAI_API_KEY, PDF_SUPPORT, resume_file, job_file, clicked,
                   resume_text, job_text, prompt, attempt, max_retries,
                   caller, log, output, docx_file, pdf_file, raised, routes>>

\* The run of the sample button: show_sample_preview up to the call of
\* call_openai_chat, and on its early return the rest of main
show_sample_preview ==
    /\ pc = "run" /\ clicked = "sample"
    /\ prompt' = <<build_prompt(SAMPLE_CV, SAMPLE_JOB_DESCRIPTION,
                                ToneProfessional)>>
    /\ IF ~OPENAI_API_KEY
       THEN /\ ui' = MainKeyCheck(Append(ui, KeyErrorSample))
            /\ pc' = "idle"
            /\ UNCHANGED <<max_retries, caller>>
       ELSE /\ pc' = "call_openai_chat"
            /\ caller' = "sample"
            /\ max_retries' = DEFAULT_MAX_RETRIES
            /\ UNCHANGED ui
    /\ UNCHANGED <<OPENAI_API_KEY, PDF_SUPPORT, resume_file, job_file, clicked,
                   resume_text, job_text, attempt, log, output, docx_file,
                   pdf_file, raised, routes>>

\* show_sample_preview after call_openai_chat returned, then the rest of
\* main (the key is checked again; the generate button is not pressed)
SampleResult ==
    /\ pc = "sample_result"
    /\ IF OutputIsError(output[1])
       THEN /\ ui' = MainKeyCheck(Append(ui,
                         Msg("error", "Sample generation failed: ",
                             output[1])))
            /\ UNCHANGED <<docx_file, pdf_file>>
       ELSE /\ docx_file' = <<save_resume_docx(output[1])>>
            /\ pdf_file' = <<save_resume_pdf(output[1])>>
            /\ ui' = MainKeyCheck(ui \o
                       <<Msg("text_area", "", output[1]),
                         Msg("download_button", "sample_resume.docx", <<>>),
                         Msg("download_button", "sample_resume.pdf", <<>>)>>)
    /\ pc' = "idle"
    /\ UNCHANGED <<OPENAI_API_KEY, PDF_SUPPORT, resume_file, job_file, clicked,
                   resume_text, job_text, prompt, attempt, max_retries,
                   caller, log, output, raised, routes>>

\* What the run of the generate button does up to the call of
\* call_openai_chat, given the selected tone and what the decoder library
\* does with each upload.  go: the run reaches call_openai_chat.
GenerateRun(tone, lr, lj) ==
    LET r == read_file(resume_file, lr)
        j == read_file(job_file, lj)
        halt(shown, rt, jt, exc, where) ==
            [go |-> FALSE, ui |-> shown, resume_text |-> rt, job_text |-> jt,
             prompt |-> <<>>, raised |-> exc, routes |-> where]
        both == <<r.route, j.route>>
    IN
    IF ~OPENAI_API_KEY
    THEN halt(<<KeyErrorMain>>, <<>>, <<>>, FALSE, <<>>)
    ELSE IF resume_file = <<>> \/ job_file = <<>>
    THEN halt(<<Msg("error",
                    "Please upload both your résumé and the job description.",
                    <<>>)>>, <<>>, <<>>, FALSE, <<>>)
    ELSE IF r.raised
    THEN halt(<<>>, <<>>, <<>>, TRUE, <<r.route>>)
    ELSE IF j.raised
    THEN halt(r.errors, <<r.text>>, <<>>, TRUE, both)
    ELSE IF TextsMissing(r.text, j.text)
    THEN halt(r.errors \o j.errors \o <<CouldNotExtract>>,
              <<r.text>>, <<j.text>>, FALSE, both)
    ELSE IF ExtractionError(r.text, j.text)
    THEN halt(r.errors \o j.errors \o
              <<Msg("error", "Error processing files: ",
                    IF StartsWith(r.text, ErrorTag) THEN r.text ELSE j.text)>>,
              <<r.text>>, <<j.text>>, FALSE, both)
    ELSE [go |-> TRUE, ui |-> r.errors \o j.errors,
          resume_text |-> <<r.text>>, job_text |-> <<j.text>>,
          prompt |-> <<build_prompt(r.text, j.text, tone)>>,
          raised |-> FALSE, routes |-> both]

\* The run of the generate button: main up to the call of call_openai_chat
main_generate ==
    /\ pc = "run" /\ clicked = "generate"
    /\ \E tone \in ToneChoices, lr \in LibOutcomes, lj \in LibOutcomes :
         LET run == GenerateRun(tone, lr, lj)
         IN  /\ ui' = run.ui
             /\ resume_text' = run.resume_text
             /\ job_text' = run.job_text
             /\ prompt' = run.prompt
             /\ raised' = run.raised
             /\ routes' = run.routes
             /\ IF run.go
                THEN /\ pc' = "call_openai_chat"
                     /\ caller' = "main"
                     /\ max_retries' = DEFAULT_MAX_RETRIES
                ELSE /\ pc' = "idle"
                     /\ UNCHANGED <<max_retries, caller>>
    /\ UNCHANGED <<OPENAI_API_KEY, PDF_SUPPORT, resume_file, job_file, clicked,
                   attempt, log, output, docx_file, pdf_file>>

\* main after call_openai_chat returned
MainResult ==
    /\ pc = "main_result"
    /\ IF OutputIsError(output[1])
       THEN /\ ui' = Append(ui, Msg("error", "", output[1]))
            /\ UNCHANGED <<docx_file, pdf_file>>
       ELSE \E show_preview \in BOOLEAN :
            /\ docx_file' = <<save_resume_docx(output[1])>>
            /\ pdf_file' = <<save_resume_pdf(output[1])>>
            /\ ui' = ui \o
                 <<Msg("success", "Résumé successfully generated!", <<>>),
                   Msg("text_area", "", output[1])>>
                 \o (IF show_preview
                     THEN <<Msg("info",
                                "Review your résumé above before downloading.",
                                <<>>)>>
                     ELSE <<>>)
                 \o <<Msg("download_button", "tailored_resume.docx", <<>>),
                      Msg("download_button", "tailored_resume.pdf", <<>>)>>
    /\ pc' = "idle"
    /\ UNCHANGED <<OPENAI_API_KEY, PDF_SUPPORT, resume_file, job_file, clicked,
                   resume_text, job_text, prompt, attempt, max_retries,
                   caller, log, output, raised, routes>>

\* The application: the environment is fixed when the process starts; no
\* upload yet, no run yet
Init ==
    /\ OPENAI_API_KEY \in BOOLEAN
    /\ PDF_SUPPORT \in BOOLEAN
    /\ resume_file = <<>> /\ job_file = <<>>
    /\ pc = "idle" /\ clicked = "none"
    /\ resume_text = <<>> /\ job_text = <<>> /\ prompt = <<>>
    /\ attempt = 0 /\ max_retries = DEFAULT_MAX_RETRIES /\ caller = "main"
    /\ log = <<>> /\ output = <<>>
    /\ ui = MainKeyCheck(<<>>)
    /\ docx_file = <<>> /\ pdf_file = <<>> /\ raised = FALSE
    /\ routes = <<>>

Next ==
    \/ UploadResume
    \/ UploadJob
    \/ ClickSample
    \/ ClickGenerate
    \/ main_no_button
    \/ show_sample_preview
    \/ main_generate
    \/ call_openai_chat
    \/ SampleResult
    \/ MainResult

Spec == Init /\ [][Next]_vars

\* call_openai_chat on its own, entered with any retry bound up to
\* MaxRetries
InitClient ==
    /\ OPENAI_API_KEY = TRUE
    /\ PDF_SUPPORT = TRUE
    /\ resume_file = <<>> /\ job_file = <<>>
    /\ pc = "call_openai_chat" /\ clicked = "none"
    /\ resume_text = <<>> /\ job_text = <<>>
    /\ prompt = <<build_prompt(SAMPLE_CV, SAMPLE_JOB_DESCRIPTION,
                               ToneProfessional)>>
    /\ attempt = 0 /\ max_retries \in 0..MaxRetries /\ caller = "direct"
    /\ log = <<>> /\ output = <<>> /\ ui = <<>>
    /\ docx_file = <<>> /\ pdf_file = <<>> /\ raised = FALSE
    /\ routes = <<>>

NextClient == call_openai_chat

SpecClient == InitClient /\ [][NextClient]_vars

\* main.read_file on its own, applied to any upload
InitExtract ==
    /\ OPENAI_API_KEY = TRUE
    /\ PDF_SUPPORT \in BOOLEAN
    /\ resume_file \in {<<u>> : u \in AllUploads} /\ job_file = <<>>
    /\ pc = "read_file" /\ clicked = "generate"
    /\ resume_text = <<>> /\ job_text = <<>> /\ prompt = <<>>
    /\ attempt = 0 /\ max_retries = DEFAULT_MAX_RETRIES /\ caller = "main"
    /\ log = <<>> /\ output = <<>> /\ ui = <<>>
    /\ docx_file = <<>> /\ pdf_file = <<>> /\ raised = FALSE
    /\ routes = <<>>

ReadUpload ==
    /\ pc = "read_file"
    /\ \E lib \in LibOutcomes :
         LET r == read_file(resume_file, lib)
         IN  /\ raised' = r.raised
             /\ resume_text' = IF r.raised THEN <<>> ELSE <<r.text>>
             /\ ui' = r.errors
             /\ routes' = <<r.route>>
    /\ pc' = "returned"
    /\ UNCHANGED <<OPENAI_API_KEY, PDF_SUPPORT, resume_file, job_file, clicked,
                   job_text, prompt, attempt, max_retries, caller, log,
                   output, docx_file, pdf_file>>

NextExtract == ReadUpload

SpecExtract == InitExtract /\ [][NextExtract]_vars

\* the reply texts of up to MaxLines lines, as call_openai_chat returns
\* them: content.strip()
RenderTexts ==
    {Strip(Join(ls)) : ls \in UNION {[1..n -> SampleLines] : n \in 1..MaxLines}}

\* The two renderers on their own, applied in the order of main (lines 543
\* and 557) to any reply text of RenderTexts
InitRender ==
    /\ OPENAI_API_KEY = TRUE
    /\ PDF_SUPPORT = TRUE
    /\ resume_file = <<>> /\ job_file = <<>>
    /\ pc = "save_resume_docx" /\ clicked = "generate"
    /\ resume_text = <<>> /\ job_text = <<>> /\ prompt = <<>>
    /\ attempt = 0 /\ max_retries = DEFAULT_MAX_RETRIES /\ caller = "main"
    /\ log = <<>> /\ output \in {<<t>> : t \in RenderTexts} /\ ui = <<>>
    /\ docx_file = <<>> /\ pdf_file = <<>> /\ raised = FALSE
    /\ routes = <<>>

WriteDocx ==
    /\ pc = "save_resume_docx"
    /\ docx_file' = <<save_resume_docx(output[1])>>
    /\ pc' = "save_resume_pdf"
    /\ UNCHANGED <<OPENAI_API_KEY, PDF_SUPPORT, resume_file, job_file, clicked,
                   resume_text, job_text, prompt, attempt, max_retries,
                   caller, log, output, ui, pdf_file, raised, routes>>

WritePdf ==
    /\ pc = "save_resume_pdf"
    /\ pdf_file' = <<save_resume_pdf(output[1])>>
    /\ pc' = "rendered"
    /\ UNCHANGED <<OPENAI_API_KEY, PDF_SUPPORT, resume_file, job_file, clicked,
                   resume_text, job_text, prompt, attempt, max_retries,
                   caller, log, output, ui, docx_file, raised, routes>>

NextRender == WriteDocx \/ WritePdf

SpecRender == InitRender /\ [][NextRender]_vars

\* ------------------------------------------------------------------------
\* Properties
\* ------------------------------------------------------------------------

\* the requests sent and the sleeps taken, in order
Requests(l) == SelectSeq(l, LAMBDA e : e.ev = "create")
Sleeps(l) == SelectSeq(l, LAMBDA e : e.ev = "sleep")
AllSig(q, S) == \A i \in 1..Len(q) : q[i].sig \in S
\* call_openai_chat has returned in this run
Returned == output # <<>>
\* the run has shown an st.error
ErrorShown == \E i \in 1..Len(ui) : ui[i].kind = "error"
Shown(m) == \E i \in 1..Len(ui) : ui[i] = m
\* an option holds the value v
Holds(opt, v) == opt # <<>> /\ opt[1] = v

\* an extraction of the generate run returned the empty text
EmptyExtracted ==
    clicked = "generate" /\ (Holds(resume_text, <<>>) \/ Holds(job_text, <<>>))

\* C1: in a run of the generate button, once the text extracted from the
\* resume or from the job description is empty, the run has halted with an
\* error on the page (the st.error of the empty-text check when both
\* extractions returned, the uncaught exception of the other extraction
\* otherwise): no prompt was built, no request was sent to the completion
\* service, call_openai_chat did not return anything and no document was
\* rendered.
C1_EmptyTextHalts ==
    EmptyExtracted =>
        /\ pc = "idle"
        /\ prompt = <<>>
        /\ log = <<>> /\ output = <<>>
        /\ docx_file = <<>> /\ pdf_file = <<>>
        /\ ErrorShown \/ raised
        /\ (resume_text # <<>> /\ job_text # <<>>) => Shown(CouldNotExtract)

\* C1 witness: a run in which the resume gave 'Hi' and the job description
\* the empty text, halted with the error shown
C1_Witness ==
    /\ clicked = "generate" /\ pc = "idle"
    /\ resume_text = <<BufText>> /\ job_text = << <<>> >>
    /\ Shown(CouldNotExtract)

\* the strings extract_text_from_pdf returns when it cannot extract
Placeholders == {MsgPdfUnsupported, MsgPdfReadPrefix \o ExcText}
DocxFailureShown ==
    Shown(Msg("error", "Error reading DOCX file: ", ExcText))
\* an extraction of the generate run failed
ExtractionFailed ==
    /\ clicked = "generate"
    /\ \/ resume_text # <<>> /\ resume_text[1] \in Placeholders
       \/ job_text # <<>> /\ job_text[1] \in Placeholders
       \/ DocxFailureShown

\* C2: a failing PDF or DOCX extraction does not raise (only the text branch
\* of read_file can), and whenever an extraction of the generate run failed,
\* whatever placeholder it returned, the run has stopped before build_prompt
\* and call_openai_chat.
C2_Claim ==
    /\ raised => routes # <<>> /\ routes[Len(routes)] = "txt"
    /\ ExtractionFailed =>
           /\ pc = "idle"
           /\ prompt = <<>>
           /\ log = <<>> /\ output = <<>>

\* C3: with the default retry bound, when call_openai_chat has returned and
\* the service answered the first k requests with the rate-limit signal and
\* the next one with a reply text, the client returned that text trimmed
\* and slept exactly k times, once after each rate-limited request and
\* before the next request; and the client does not return while fewer
\* than max_retries requests, all rate-limited, were sent.
C3_RateLimitedThenSuccess ==
    max_retries = DEFAULT_MAX_RETRIES =>
        LET q == Requests(log)
            k == Len(q) - 1
        IN
        /\ ( /\ Returned /\ q # <<>>
             /\ AllSig(SubSeq(q, 1, k), {"RateLimitError"})
             /\ q[Len(q)].sig = "ok" /\ q[Len(q)].content # <<>> )
           => /\ output[1] = Strip(q[Len(q)].content[1])
              /\ Len(Sleeps(log)) = k
              /\ Len(log) = 2 * k + 1
              /\ \A i \in 1..k :
                     /\ log[2 * i - 1].ev = "create"
                     /\ log[2 * i].ev = "sleep"
        /\ (Returned /\ AllSig(q, {"RateLimitError"})) => Len(q) = max_retries

\* C3 witness: two rate-limit answers, then the reply '  ok \n', returned
\* as 'ok' after two sleeps
C3_Witness ==
    /\ max_retries = DEFAULT_MAX_RETRIES
    /\ Len(log) = 5
    /\ log[1].sig = "RateLimitError" /\ log[2].ev = "sleep"
    /\ log[3].sig = "RateLimitError" /\ log[4].ev = "sleep"
    /\ log[5].sig = "ok" /\ log[5].content = <<ReplyPadded>>
    /\ output = <<Strip(ReplyPadded)>>

\* C4: a request answered with the authentication-failure or the
\* malformed-request signal is the last entry of the log (no request and no
\* sleep follows it), and in the state it is logged call_openai_chat has
\* already returned a string that starts with 'Error:'.
C4_FatalSignalsReturnAtOnce ==
    \A i \in 1..Len(log) :
        log[i].sig \in {"AuthenticationError", "InvalidRequestError"}
            => /\ i = Len(log)
               /\ Returned
               /\ StartsWith(output[1], ErrorTag)
               /\ pc # "call_openai_chat"

\* C4 witness: a malformed-request answer to the second request, after a
\* retried first one
C4_Witness ==
    /\ Len(log) = 3
    /\ log[2].ev = "sleep"
    /\ log[3].sig = "InvalidRequestError"
    /\ output = <<MsgInvalidPrefix \o ExcText>>

\* C5: call_openai_chat never sends more than max_retries requests; for
\* max_retries >= 1 it is not in its loop once max_retries requests were
\* sent; and when it has returned after only retryable failures
\* (rate-limit or other, in any mix) it has sent exactly max_retries
\* requests, returned a string that starts with 'Error:', and the last
\* thing it did before returning was a request, not a sleep.
C5_RetryableFailuresExhaustBound ==
    LET q == Requests(log)
    IN  /\ Len(q) <= max_retries
        /\ (pc = "call_openai_chat" /\ max_retries >= 1)
               => Len(q) < max_retries
        /\ ( /\ max_retries >= 1 /\ Returned
             /\ AllSig(q, {"RateLimitError", "Exception"}) )
           => /\ Len(q) = max_retries
              /\ StartsWith(output[1], ErrorTag)
              /\ log[Len(log)].ev = "create"
              /\ Len(Sleeps(log)) = max_retries - 1

\* C5 witness: rate-limit, other failure, rate-limit under a bound of three
C5_Witness ==
    /\ max_retries = 3 /\ Returned
    /\ Len(log) = 5
    /\ log[1].sig = "RateLimitError"
    /\ log[3].sig = "Exception"
    /\ log[5].sig = "RateLimitError"
    /\ output = <<MsgRateLimit>>

\* the last request of the run was answered with a reply text
ServiceReplied ==
    LET q == Requests(log)
    IN  q # <<>> /\ q[Len(q)].sig = "ok" /\ q[Len(q)].content # <<>>
LastReply == LET q == Requests(log) IN q[Len(q)].content[1]

\* C6: once the generate run has handled what call_openai_chat returned: if the
\* service answered with a reply text, the trimmed text was displayed and
\* rendered to DOCX and PDF, whatever the text; and the error path (nothing
\* rendered) was taken only when the service did not answer with a reply.
C6_Claim ==
    (clicked = "generate" /\ Returned /\ pc = "idle") =>
        /\ ServiceReplied =>
               /\ Shown(Msg("text_area", "", Strip(LastReply)))
               /\ docx_file # <<>> /\ pdf_file # <<>>
        /\ (docx_file = <<>> \/ pdf_file = <<>>) => ~ServiceReplied

\* bytes.decode("latin-1"): byte k is code point k
Latin1Decode(b) == b

\* C7: read_file applied to a .txt upload does not raise and returns the
\* UTF-8 decoding of the bytes when they are valid UTF-8, their Latin-1
\* decoding otherwise.
C7_Claim ==
    (pc = "returned" /\ routes = <<"txt">>) =>
        LET d == Utf8Decode(resume_file[1].data)
        IN  /\ ~raised
            /\ resume_text =
                   <<IF d.ok THEN d.text
                     ELSE Latin1Decode(resume_file[1].data)>>

\* C8: read_file applied to an upload whose first four bytes are '%PDF'
\* takes the PDF branch (extract_text_from_pdf), whatever the file name.
C8_Claim ==
    (pc = "returned" /\ StartsWith(resume_file[1].data, PdfMagic))
        => routes = <<"pdf">>

\* a section word followed by ':'
ColonHeaders == {w \o <<58>> : w \in SectionWords}

\* C9: in the rendered reply, a line that is a section word followed by a
\* colon (such as 'SKILLS:') is classified as a section header by both
\* renderers, and each of the lines starting with '- ' that follow it is
\* classified as a bullet item.
C9_Claim ==
    (docx_file # <<>> /\ pdf_file # <<>>) =>
        LET lines == SplitLines(output[1])
            d == DocxLoop(lines, NoSection)
            p == PdfLoop(lines, NoSection)
        IN  /\ docx_file[1] = save_resume_docx(output[1])
            /\ pdf_file[1] = save_resume_pdf(output[1])
            /\ \A i \in 1..Len(lines) :
                 Strip(lines[i]) \in ColonHeaders =>
                   /\ d[i].cls = "header" /\ p[i].cls = "header"
                   /\ \A j \in (i + 1)..Len(lines) :
                        (\A n \in (i + 1)..j : StartsWith(lines[n], <<45, 32>>))
                            => d[j].cls = "bullet" /\ p[j].cls = "bullet"

\* C10: without the API key, no run builds a prompt, reads an upload, sends
\* a request, gets a completion or renders a document, and every finished
\* run has shown the key error.
C10_Claim ==
    ~OPENAI_API_KEY =>
        /\ pc \in {"idle", "run"}
        /\ pc = "idle" => Shown(KeyErrorMain)
        /\ prompt = <<>>
        /\ resume_text = <<>> /\ job_text = <<>> /\ routes = <<>>
        /\ log = <<>> /\ output = <<>>
        /\ docx_file = <<>> /\ pdf_file = <<>>

\* the section cursor before line i of a pass
CursorBefore(steps, i) == IF i = 1 THEN NoSection ELSE steps[i - 1].section
\* the line, in any letter case, is one of the six section words
InVocabulary(line) == Upper(line) \in SectionWords
\* the line begins with '-', the bullet sign or '*'
BeginsWithMarker(line) == line # <<>> /\ line[1] \in BulletChars
\* the line without its marker and the white space after the marker
MarkerStripped(line) == LStrip(SubSeq(line, 2, Len(line)))
\* What a pass did with line i (the line as the loop reads it, trimmed):
\* the cursor becomes the upper-cased line on a line of the vocabulary and
\* stays on every other line; a line beginning with a marker is a list item
\* of the given text exactly when the cursor is EXPERIENCE at that line;
\* every other line that is neither blank nor a header is a plain paragraph
\* of the line's text.
LineRule(steps, i, line, item_text) ==
    LET before == CursorBefore(steps, i)
        s == steps[i]
        header == line # <<>> /\ InVocabulary(line)
    IN  /\ s.section = IF header THEN Upper(line) ELSE before
        /\ (s.cls = "blank") <=> (line = <<>>)
        /\ (s.cls = "header") <=> header
        /\ (line # <<>> /\ ~header) =>
             /\ (s.cls = "bullet") <=>
                  (BeginsWithMarker(line) /\ before = EXPERIENCE)
             /\ s.cls = "bullet" => s.text = item_text
             /\ s.cls # "bullet" => (s.cls = "plain" /\ s.text = line)

MarkerParagraph(doc, style) ==
    \E k \in 1..Len(doc) :
        doc[k].style = style /\ BeginsWithMarker(doc[k].text)
Styles(doc) == [k \in 1..Len(doc) |-> doc[k].style]
\* the classes and the cursors of a pass, line by line
Classes(steps) == [i \in 1..Len(steps) |-> steps[i].cls]
Cursors(steps) == [i \in 1..Len(steps) |-> steps[i].section]
\* the number of paragraphs of a style in a document
CountStyle(doc, style) ==
    Cardinality({k \in 1..Len(doc) : doc[k].style = style})

\* C12: for every reply text, save_resume_docx and save_resume_pdf classify
\* the lines alike (skipped blank, section header, bullet item, plain
\* paragraph) with the same section cursor after each line, so after the
\* title (and the DOCX spacing paragraph) the two documents hold the same
\* number of header, bullet and plain paragraphs in the same order.
C12_SameClassification ==
    (docx_file # <<>> /\ pdf_file # <<>>) =>
        LET lines == SplitLines(output[1])
            d == DocxLoop(lines, NoSection)
            p == PdfLoop(lines, NoSection)
            docx_body == SubSeq(docx_file[1], 3, Len(docx_file[1]))
            pdf_body == SubSeq(pdf_file[1], 2, Len(pdf_file[1]))
        IN  /\ Classes(d) = Classes(p)
            /\ Cursors(d) = Cursors(p)
            /\ Styles(docx_body) = Styles(pdf_body)
            /\ Styles(docx_body) \in Seq({"header", "bullet", "plain"})
            /\ \A st \in {"header", "bullet", "plain"} :
                 CountStyle(docx_body, st) = CountStyle(pdf_body, st)

\* Both documents are written from a reply with a header, a list item under
\* it and a plain paragraph, in that order in each document.
C12_Witness ==
    /\ pc = "rendered"
    /\ Styles(docx_file[1]) = <<"title", "spacer", "header", "bullet", "plain">>
    /\ Styles(pdf_file[1]) = <<"title", "header", "bullet", "plain">>

====
